---- MODULE Spec2Model ----
(***************************************************************************)
(* Target graph and execution engine of go-build: the registry of targets  *)
(* (target.go, Targets), the order resolver (Targets.ComputeTargetRunOrder *)
(* and its recursive helper Targets.dfs) and the sequential executor       *)
(* (run.go, Builder.RunTarget).                                            *)
(*                                                                         *)
(* The recursion of dfs is unfolded into an explicit call stack: one step  *)
(* per call entry (lines 45-62), per iteration of the range loop (64-69)   *)
(* and per return (71-77).                                                 *)
(*                                                                         *)
(* The default targets come from NewBuilder (builder.go): ListArchs        *)
(* resolves the architectures, createExecutables lists the executables and *)
(* createDefaultTargets registers the grid of build and zip targets.       *)
(***************************************************************************)
EXTENDS Naturals, Sequences, FiniteSets, TLC

VARIABLES
    GO_VERSION, \* Builder.GO_VERSION: the version of the toolchain found
    cfg,        \* BuilderConfig: Archs, the architectures asked for
    dist,       \* the lines of the output of "go tool dist list"
    dirs,       \* the base names of the directories holding a main file, in
                \* the order filepath.WalkDir meets them
    closures,   \* the function values of the grid leaves: the variables a
                \* closure refers to, and the cells holding their values
    Executables,\* Builder.Executables: the executables found, <<Name, Archs>>
    op,         \* history: the last call of Add, AddDependency or
                \* createDefaultTargets, with its arguments and outcome
    plans,      \* history: what the calls of ComputeTargetRunOrder returned
    items,      \* Targets.items: map[string]*Target
    pc,         \* position of RunTarget: "idle", "dfs", "loop", "action", "done"
    root,       \* RunTarget: the name it was called with
    visited,    \* dfs: visited map[string]int
    result,     \* dfs: the result slice threaded through the calls
    err,        \* dfs: the error being returned, NoErr while none
    call,       \* dfs: the name of the call about to be entered, NoName if none
    stack,      \* dfs: the activation records, <<name, i>>, innermost last
    ts,         \* RunTarget: the plan returned by ComputeTargetRunOrder
    i,          \* RunTarget: index of the range loop over ts
    rv,         \* RunTarget: the value returned, NoErr for nil
    log,        \* history: notifications printed and actions invoked, in order
    expanded    \* history: how often the range loop over a target's
                \* Dependencies was started

vars ==
    <<GO_VERSION, cfg, dist, dirs, closures, Executables, op, plans, items, pc, root, visited, result, err, call, stack,
      ts, i, rv, log, expanded>>

\* The names a registry may hold and a caller may ask for.
Names == {"A", "B", "C", "D"}

\* Longest dependency list of one target.
MaxDeps == 2

\* Largest number of dependency entries of a whole registry.
MaxEdges == 4

NoName == ""

NoErr == [kind |-> "nil", name |-> NoName]

\* errors.Errorf("cycle identified in targets graph")
CycleErr == [kind |-> "cycle", name |-> NoName]

\* Variant: the error names the root instead of the absent name.
UnknownErrRoot(name) == [kind |-> "unknown", name |-> root]

\* errors.Errorf("unknown target: %v", name)
UnknownErr(name) == [kind |-> "unknown", name |-> name]

\* errors.Errorf("unsupported go version ...")
VersionErr == [kind |-> "version", name |-> NoName]

\* The action of a target returned this error.
ActionErr(name) == [kind |-> "action", name |-> name]

\* The versions of the toolchain: go1.1, go1.2.
GoVersions == {1, 2}

\* Builder.Code.MinGoVersion, the go directive of go.mod: go 1.2.
MinGoVersion == 2

\* A configuration and an environment the engine does not read.
NoConfig == [Archs |-> <<>>]

\* No function value was made: no variable was declared in a loop body, no
\* range loop has set its variable.
NoClosures ==
    [cells |-> <<>>, funcs |-> <<>>, exec |-> NoName, arch |-> NoName]

\* No registry operation was called yet.
NoOp ==
    [fn |-> "none", name |-> NoName, dependencies |-> <<>>, code |-> FALSE,
     panicked |-> FALSE]

Nil == [Name |-> NoName, Dependencies |-> <<>>, run |-> FALSE]

\* The dependency lists over the names S.
DepLists(S) == UNION {[1..n -> S] : n \in 0..MaxDeps}

\* A target as Targets.Add builds it.
NewTarget(name, dependencies, code) ==
    [Name |-> name, Dependencies |-> dependencies, run |-> code]

\* What a name can stand for: no target, or a target with or without action.
Slots(name, S) ==
    {Nil} \cup {NewTarget(name, d, r) : d \in DepLists(S), r \in BOOLEAN}

\* The map holding the targets of f, the names without target left out.
MapOf(f) == [n \in {m \in DOMAIN f : f[m] # Nil} |-> f[n]]

\* The number of dependency entries of the targets in the tuple t.
RECURSIVE Edges(_)
Edges(t) ==
    IF t = <<>> THEN 0 ELSE Len(Head(t).Dependencies) + Edges(Tail(t))

\* Every registry over A, B and C, dangling names and cycles included.
GeneralRegistries ==
    {MapOf([A |-> t[1], B |-> t[2], C |-> t[3]]) :
        t \in {x \in Slots("A", {"A", "B", "C"})
                       \X Slots("B", {"A", "B", "C"})
                       \X Slots("C", {"A", "B", "C"}) : Edges(x) <= MaxEdges}}

\* The registries whose edges are edges of the diamond D -> {B, C}, B -> A,
\* C -> A.
DiamondRegistries ==
    {MapOf([A |-> t[1], B |-> t[2], C |-> t[3], D |-> t[4]]) :
        t \in {x \in (Slots("A", {}) \ {Nil})
                       \X (Slots("B", {"A"}) \ {Nil})
                       \X (Slots("C", {"A"}) \ {Nil})
                       \X (Slots("D", {"B", "C"}) \ {Nil}) :
                   Edges(x) <= MaxEdges}}

\* The registries that Add and AddDependency have built before a run.
Registries == GeneralRegistries \cup DiamondRegistries

\* The map f with the value t under one more key.
Put(f, name, t) ==
    [n \in DOMAIN f \cup {name} |-> IF n = name THEN t ELSE f[n]]

\* A registry under construction: the map, and whether a call has panicked.
\* A panic ends the program, so every later call leaves the state alone.
Setup(reg) == [items |-> reg, panicked |-> FALSE]

\* Variant: a second target of the same name takes the place of the first.
AddOverwrite(st, name, dependencies, code) ==
    IF st.panicked THEN st
    ELSE [st EXCEPT !.items =
             Put(st.items, name, NewTarget(name, dependencies, code))]

\* Variant: the dependencies have to be registered already.
AddValidated(st, name, dependencies, code) ==
    IF st.panicked THEN st
    ELSE IF \/ name \in DOMAIN st.items
            \/ \E k \in 1..Len(dependencies) :
                  dependencies[k] \notin DOMAIN st.items
         THEN [st EXCEPT !.panicked = TRUE]
         ELSE [st EXCEPT !.items =
                  Put(st.items, name, NewTarget(name, dependencies, code))]

\* Targets.Add
Add(st, name, dependencies, code) ==
    IF st.panicked THEN st
    ELSE IF name \in DOMAIN st.items
         THEN [st EXCEPT !.panicked = TRUE]
         ELSE [st EXCEPT !.items =
                  Put(st.items, name, NewTarget(name, dependencies, code))]

\* Target.AddDependency on the registered target t, with the target dep
AddDependency(st, t, dep) ==
    IF st.panicked THEN st
    ELSE [st EXCEPT !.items[t].Dependencies = Append(@, dep)]

\* Targets.Get
Get(name) == IF name \in DOMAIN items THEN items[name] ELSE Nil

\* Variant: every target is appended to the plan.
ScheduleAlways(res, t) == Append(res, t.Name)

\* dfs, lines 71-73: a target with an action is appended to the plan.
Schedule(res, t) == IF t.run THEN Append(res, t.Name) ELSE res

\* dfs, lines 45-48: the state of a name, 0 for a name the map does not hold.
Visited(name) == IF name \in DOMAIN visited THEN visited[name] ELSE 0

\* The map m with the value v under the key name.
Mark(m, name, v) ==
    [n \in DOMAIN m \cup {name} |-> IF n = name THEN v ELSE m[n]]

\* How often the loop over the Dependencies of name was started.
Expanded(name) == IF name \in DOMAIN expanded THEN expanded[name] ELSE 0

Top == stack[Len(stack)]

Pop(s) == SubSeq(s, 1, Len(s) - 1)

Init ==
    /\ GO_VERSION \in GoVersions
    /\ cfg = NoConfig
    /\ dist = <<>>
    /\ dirs = <<>>
    /\ closures = NoClosures
    /\ Executables = <<>>
    /\ op = NoOp
    /\ plans = <<>>
    /\ items \in Registries
    /\ pc = "idle"
    /\ root = NoName
    /\ visited = <<>>
    /\ result = <<>>
    /\ err = NoErr
    /\ call = NoName
    /\ stack = <<>>
    /\ ts = <<>>
    /\ i = 0
    /\ rv = NoErr
    /\ log = <<>>
    /\ expanded = <<>>

\* RunTarget, lines 20-22: the toolchain is older than the project needs.
RunTargetUnsupported ==
    /\ pc = "idle"
    /\ GO_VERSION < MinGoVersion
    /\ \E name \in Names \cup DOMAIN items : root' = name
    /\ pc' = "done"
    /\ rv' = VersionErr
    /\ UNCHANGED <<GO_VERSION, cfg, dist, dirs, closures, Executables, op, plans, items, visited, result, err, call,
                   stack, ts, i, log, expanded>>

\* Variant: the order is resolved whatever the toolchain.
RunTargetResolveUnchecked ==
    /\ pc = "idle"
    /\ \E name \in Names \cup DOMAIN items :
        /\ root' = name
        /\ call' = name
        /\ result' = <<>>
        /\ visited' = <<>>
        /\ pc' = "dfs"
    /\ UNCHANGED <<GO_VERSION, cfg, dist, dirs, closures, Executables, op, plans, items, err, stack,
                   ts, i, rv, log, expanded>>

\* RunTarget, line 24, and ComputeTargetRunOrder, lines 36-39.
RunTargetResolve ==
    /\ pc = "idle"
    /\ ~(GO_VERSION < MinGoVersion)
    /\ \E name \in Names \cup DOMAIN items :
        /\ root' = name
        /\ call' = name
        /\ result' = <<>>
        /\ visited' = <<>>
        /\ pc' = "dfs"
    /\ UNCHANGED <<GO_VERSION, cfg, dist, dirs, closures, Executables, op, plans, items, err, stack, ts, i, rv, log,
                   expanded>>

\* Variant: a target in progress is taken for done, no cycle is reported.
dfsCycleSilent ==
    /\ pc = "dfs" /\ call # NoName /\ err = NoErr
    /\ Visited(call) = 1
    /\ call' = NoName
    /\ UNCHANGED <<GO_VERSION, cfg, dist, dirs, closures, Executables, op, plans, items, pc, root, visited, result,
                   err, stack, ts, i, rv, log, expanded>>

\* dfs, lines 50-52: the target is in progress on the current path.
dfsCycle ==
    /\ pc = "dfs" /\ call # NoName /\ err = NoErr
    /\ Visited(call) = 1
    /\ err' = CycleErr
    /\ result' = <<>>
    /\ call' = NoName
    /\ UNCHANGED <<GO_VERSION, cfg, dist, dirs, closures, Executables, op, plans, items, pc, root, visited, stack,
                   ts, i, rv, log, expanded>>

\* Variant: a target that is done is walked again.
dfsDoneRevisit ==
    /\ pc = "dfs" /\ call # NoName /\ err = NoErr
    /\ Visited(call) = 2
    /\ visited' = Mark(visited, call, 1)
    /\ stack' = Append(stack, [name |-> call, i |-> 0])
    /\ expanded' = Mark(expanded, call, Expanded(call) + 1)
    /\ call' = NoName
    /\ UNCHANGED <<GO_VERSION, cfg, dist, dirs, closures, Executables, op, plans, items, pc, root, result, err, ts,
                   i, rv, log>>

\* Variant: a target that is done is taken for one in progress.
dfsDoneIsCycle ==
    /\ pc = "dfs" /\ call # NoName /\ err = NoErr
    /\ Visited(call) = 2
    /\ err' = CycleErr
    /\ result' = <<>>
    /\ call' = NoName
    /\ UNCHANGED <<GO_VERSION, cfg, dist, dirs, closures, Executables, op, plans, items, pc, root, visited,
                   stack, ts, i, rv, log, expanded>>

\* dfs, lines 53-54: the target is done already.
dfsDone ==
    /\ pc = "dfs" /\ call # NoName /\ err = NoErr
    /\ Visited(call) = 2
    /\ call' = NoName
    /\ UNCHANGED <<GO_VERSION, cfg, dist, dirs, closures, Executables, op, plans, items, pc, root, visited, result,
                   err, stack, ts, i, rv, log, expanded>>

\* Variant: a name that is not registered is registered without action.
dfsUnknownRegisters ==
    /\ pc = "dfs" /\ call # NoName /\ err = NoErr
    /\ Visited(call) = 0
    /\ Get(call) = Nil
    /\ items' = Put(items, call, NewTarget(call, <<>>, FALSE))
    /\ err' = UnknownErr(call)
    /\ result' = <<>>
    /\ call' = NoName
    /\ UNCHANGED <<GO_VERSION, cfg, dist, dirs, closures, Executables, op, plans, pc, root, visited, stack,
                   ts, i, rv, log, expanded>>

\* dfs, lines 57-60: the name is not registered.
dfsUnknown ==
    /\ pc = "dfs" /\ call # NoName /\ err = NoErr
    /\ Visited(call) = 0
    /\ Get(call) = Nil
    /\ err' = UnknownErr(call)
    /\ result' = <<>>
    /\ call' = NoName
    /\ UNCHANGED <<GO_VERSION, cfg, dist, dirs, closures, Executables, op, plans, items, pc, root, visited, stack,
                   ts, i, rv, log, expanded>>

\* Variant: the target is marked done as soon as it is entered.
dfsVisitMarkDone ==
    /\ pc = "dfs" /\ call # NoName /\ err = NoErr
    /\ Visited(call) = 0
    /\ Get(call) # Nil
    /\ visited' = Mark(visited, call, 2)
    /\ stack' = Append(stack, [name |-> call, i |-> 0])
    /\ expanded' = Mark(expanded, call, Expanded(call) + 1)
    /\ call' = NoName
    /\ UNCHANGED <<GO_VERSION, cfg, dist, dirs, closures, Executables, op, plans, items, pc, root, result, err, ts,
                   i, rv, log>>

\* Variant: the dependencies of a target without action are not walked.
dfsVisitSkipAggregator ==
    /\ pc = "dfs" /\ call # NoName /\ err = NoErr
    /\ Visited(call) = 0
    /\ Get(call) # Nil
    /\ visited' = Mark(visited, call, 1)
    /\ stack' = Append(stack, [name |-> call,
                               i |-> IF Get(call).run THEN 0
                                     ELSE Len(Get(call).Dependencies)])
    /\ expanded' = Mark(expanded, call, Expanded(call) + 1)
    /\ call' = NoName
    /\ UNCHANGED <<GO_VERSION, cfg, dist, dirs, closures, Executables, op, plans, items, pc, root, result, err, ts, i,
                   rv, log>>

\* dfs, lines 57-62: the target is marked in progress and its loop starts.
dfsVisit ==
    /\ pc = "dfs" /\ call # NoName /\ err = NoErr
    /\ Visited(call) = 0
    /\ Get(call) # Nil
    /\ visited' = Mark(visited, call, 1)
    /\ stack' = Append(stack, [name |-> call, i |-> 0])
    /\ expanded' = Mark(expanded, call, Expanded(call) + 1)
    /\ call' = NoName
    /\ UNCHANGED <<GO_VERSION, cfg, dist, dirs, closures, Executables, op, plans, items, pc, root, result, err, ts,
                   i, rv, log>>

\* Variant: the loop steps over every second dependency.
dfsRangeSkip ==
    /\ pc = "dfs" /\ call = NoName /\ err = NoErr
    /\ stack # <<>>
    /\ Top.i < Len(Get(Top.name).Dependencies)
    /\ call' = Get(Top.name).Dependencies[Top.i + 1]
    /\ stack' = [stack EXCEPT ![Len(stack)].i =
                    IF @ + 2 <= Len(Get(Top.name).Dependencies)
                    THEN @ + 2 ELSE Len(Get(Top.name).Dependencies)]
    /\ UNCHANGED <<GO_VERSION, cfg, dist, dirs, closures, Executables, op, plans, items, pc, root, visited, result,
                   err, ts, i, rv, log, expanded>>

\* Variant: the dependencies are walked from the last to the first.
dfsRangeBackwards ==
    /\ pc = "dfs" /\ call = NoName /\ err = NoErr
    /\ stack # <<>>
    /\ Top.i < Len(Get(Top.name).Dependencies)
    /\ call' = Get(Top.name).Dependencies[
                   Len(Get(Top.name).Dependencies) - Top.i]
    /\ stack' = [stack EXCEPT ![Len(stack)].i = @ + 1]
    /\ UNCHANGED <<GO_VERSION, cfg, dist, dirs, closures, Executables, op, plans, items, pc, root, visited, result,
                   err, ts, i, rv, log, expanded>>

\* Variant: before the first dependency is walked, the whole list is looked
\* up and the first name that is not registered is reported.
dfsRangeValidates ==
    /\ pc = "dfs" /\ call = NoName /\ err = NoErr
    /\ stack # <<>>
    /\ Top.i < Len(Get(Top.name).Dependencies)
    /\ LET deps == Get(Top.name).Dependencies
           absent == {k \in DOMAIN deps : deps[k] \notin DOMAIN items}
       IN IF Top.i = 0 /\ absent # {}
          THEN /\ err' = UnknownErr(deps[CHOOSE k \in absent :
                                             \A x \in absent : k <= x])
               /\ result' = <<>>
               /\ UNCHANGED <<call, stack>>
          ELSE /\ call' = deps[Top.i + 1]
               /\ stack' = [stack EXCEPT ![Len(stack)].i = @ + 1]
               /\ UNCHANGED <<err, result>>
    /\ UNCHANGED <<GO_VERSION, cfg, dist, dirs, closures, Executables, op, plans, items, pc, root, visited,
                   ts, i, rv, log, expanded>>

\* dfs, lines 64-65: the next dependency is passed to a recursive call.
dfsRange ==
    /\ pc = "dfs" /\ call = NoName /\ err = NoErr
    /\ stack # <<>>
    /\ Top.i < Len(Get(Top.name).Dependencies)
    /\ call' = Get(Top.name).Dependencies[Top.i + 1]
    /\ stack' = [stack EXCEPT ![Len(stack)].i = @ + 1]
    /\ UNCHANGED <<GO_VERSION, cfg, dist, dirs, closures, Executables, op, plans, items, pc, root, visited, result,
                   err, ts, i, rv, log, expanded>>

\* Variant: the mark of the target is removed when its walk is over.
dfsReturnUnmark ==
    /\ pc = "dfs" /\ call = NoName /\ err = NoErr
    /\ stack # <<>>
    /\ Top.i = Len(Get(Top.name).Dependencies)
    /\ result' = Schedule(result, Get(Top.name))
    /\ visited' = Mark(visited, Top.name, 0)
    /\ stack' = Pop(stack)
    /\ UNCHANGED <<GO_VERSION, cfg, dist, dirs, closures, Executables, op, plans, items, pc, root, err, call, ts, i,
                   rv, log, expanded>>

\* dfs, lines 71-77: the loop is over, the target is scheduled and done.
dfsReturn ==
    /\ pc = "dfs" /\ call = NoName /\ err = NoErr
    /\ stack # <<>>
    /\ Top.i = Len(Get(Top.name).Dependencies)
    /\ result' = Schedule(result, Get(Top.name))
    /\ visited' = Mark(visited, Top.name, 2)
    /\ stack' = Pop(stack)
    /\ UNCHANGED <<GO_VERSION, cfg, dist, dirs, closures, Executables, op, plans, items, pc, root, err, call, ts, i,
                   rv, log, expanded>>

\* dfs, lines 66-68: the error of a recursive call is passed up.
dfsFail ==
    /\ pc = "dfs" /\ call = NoName /\ err # NoErr
    /\ stack # <<>>
    /\ result' = <<>>
    /\ stack' = Pop(stack)
    /\ UNCHANGED <<GO_VERSION, cfg, dist, dirs, closures, Executables, op, plans, items, pc, root, visited, err,
                   call, ts, i, rv, log, expanded>>

\* Variant: the error of the resolver is not looked at.
RunTargetOrderErrIgnored ==
    /\ pc = "dfs" /\ call = NoName /\ stack = <<>>
    /\ err # NoErr
    /\ ts' = result
    /\ plans' = Append(plans, [ts |-> result, err |-> err])
    /\ i' = 0
    /\ pc' = "loop"
    /\ UNCHANGED <<GO_VERSION, cfg, dist, dirs, closures, Executables, op, items, root, visited, result, err, call,
                   stack, rv, log, expanded>>

\* RunTarget, lines 24-27: the resolver failed.
RunTargetOrderErr ==
    /\ pc = "dfs" /\ call = NoName /\ stack = <<>>
    /\ err # NoErr
    /\ ts' = result
    /\ plans' = Append(plans, [ts |-> result, err |-> err])
    /\ rv' = err
    /\ pc' = "done"
    /\ UNCHANGED <<GO_VERSION, cfg, dist, dirs, closures, Executables, op, items, root, visited, result, err, call,
                   stack, i, log, expanded>>

\* RunTarget, lines 24-33: the resolver returned the plan.
RunTargetOrderOk ==
    /\ pc = "dfs" /\ call = NoName /\ stack = <<>>
    /\ err = NoErr
    /\ ts' = result
    /\ plans' = Append(plans, [ts |-> result, err |-> err])
    /\ i' = 0
    /\ pc' = "loop"
    /\ UNCHANGED <<GO_VERSION, cfg, dist, dirs, closures, Executables, op, items, root, visited, result, err, call,
                   stack, rv, log, expanded>>

\* Variant: the plan is walked from its end.
RunTargetInvokeReverse ==
    /\ pc = "loop"
    /\ i < Len(ts)
    /\ LET n == ts[Len(ts) - i]
       IN log' = log \o <<[ev |-> "executing", n |-> n, i |-> i, len |-> Len(ts)],
                          [ev |-> "call", n |-> Get(n).Name, i |-> i, len |-> Len(ts)]>>
    /\ pc' = "action"
    /\ UNCHANGED <<GO_VERSION, cfg, dist, dirs, closures, Executables, op, plans, items, root, visited, result, err,
                   call, stack, ts, i, rv, expanded>>

\* Variant: the step is announced after its action was called.
RunTargetInvokeThenPrint ==
    /\ pc = "loop"
    /\ i < Len(ts)
    /\ LET n == ts[i + 1]
       IN log' = log \o <<[ev |-> "call", n |-> Get(n).Name, i |-> i, len |-> Len(ts)],
                          [ev |-> "executing", n |-> n, i |-> i, len |-> Len(ts)]>>
    /\ pc' = "action"
    /\ UNCHANGED <<GO_VERSION, cfg, dist, dirs, closures, Executables, op, plans, items, root, visited, result, err,
                   call, stack, ts, i, rv, expanded>>

\* Variant: the steps are counted from one.
RunTargetInvokeOneBased ==
    /\ pc = "loop"
    /\ i < Len(ts)
    /\ LET n == ts[i + 1]
       IN log' = log \o <<[ev |-> "executing", n |-> n, i |-> i + 1, len |-> Len(ts)],
                          [ev |-> "call", n |-> Get(n).Name, i |-> i, len |-> Len(ts)]>>
    /\ pc' = "action"
    /\ UNCHANGED <<GO_VERSION, cfg, dist, dirs, closures, Executables, op, plans, items, root, visited, result, err,
                   call, stack, ts, i, rv, expanded>>

\* RunTarget, lines 33-37: the step is announced and its action is called.
RunTargetInvoke ==
    /\ pc = "loop"
    /\ i < Len(ts)
    /\ LET n == ts[i + 1]
       IN log' = log \o <<[ev |-> "executing", n |-> n, i |-> i, len |-> Len(ts)],
                          [ev |-> "call", n |-> Get(n).Name, i |-> i, len |-> Len(ts)]>>
    /\ pc' = "action"
    /\ UNCHANGED <<GO_VERSION, cfg, dist, dirs, closures, Executables, op, plans, items, root, visited, result, err,
                   call, stack, ts, i, rv, expanded>>

\* RunTarget, lines 37-45: the action returned nil.
RunTargetActionOk ==
    /\ pc = "action"
    /\ log' = Append(log, [ev |-> "return", n |-> ts[i + 1], i |-> i, len |-> Len(ts)])
    /\ i' = i + 1
    /\ pc' = "loop"
    /\ UNCHANGED <<GO_VERSION, cfg, dist, dirs, closures, Executables, op, plans, items, root, visited, result, err,
                   call, stack, ts, rv, expanded>>

\* Variant: the error is printed and the run goes on with the next step.
RunTargetActionErrContinue ==
    /\ pc = "action"
    /\ log' = log \o <<[ev |-> "failed", n |-> ts[i + 1], i |-> i, len |-> Len(ts)],
                       [ev |-> "error", n |-> ts[i + 1], i |-> i, len |-> Len(ts)]>>
    /\ rv' = ActionErr(ts[i + 1])
    /\ i' = i + 1
    /\ pc' = "loop"
    /\ UNCHANGED <<GO_VERSION, cfg, dist, dirs, closures, Executables, op, plans, items, root, visited, result, err,
                   call, stack, ts, expanded>>

\* Variant: the error notification names the target RunTarget was asked for.
RunTargetActionErrNamesRoot ==
    /\ pc = "action"
    /\ log' = log \o <<[ev |-> "failed", n |-> ts[i + 1], i |-> i, len |-> Len(ts)],
                       [ev |-> "error", n |-> root, i |-> i, len |-> Len(ts)]>>
    /\ rv' = ActionErr(ts[i + 1])
    /\ pc' = "done"
    /\ UNCHANGED <<GO_VERSION, cfg, dist, dirs, closures, Executables, op, plans, items, root, visited, result, err,
                   call, stack, ts, i, expanded>>

\* RunTarget, lines 37-42: the action returned an error.
RunTargetActionErr ==
    /\ pc = "action"
    /\ log' = log \o <<[ev |-> "failed", n |-> ts[i + 1], i |-> i, len |-> Len(ts)],
                       [ev |-> "error", n |-> ts[i + 1], i |-> i, len |-> Len(ts)]>>
    /\ rv' = ActionErr(ts[i + 1])
    /\ pc' = "done"
    /\ UNCHANGED <<GO_VERSION, cfg, dist, dirs, closures, Executables, op, plans, items, root, visited, result, err,
                   call, stack, ts, i, expanded>>

\* Variant: a plan without steps is an error.
RunTargetReturnEmptyFails ==
    /\ pc = "loop"
    /\ i = Len(ts)
    /\ rv' = IF ts = <<>> THEN [kind |-> "empty", name |-> root] ELSE NoErr
    /\ pc' = "done"
    /\ UNCHANGED <<GO_VERSION, cfg, dist, dirs, closures, Executables, op, plans, items, root, visited, result, err,
                   call, stack, ts, i, log, expanded>>

\* RunTarget, lines 33 and 47: the plan is exhausted.
RunTargetReturn ==
    /\ pc = "loop"
    /\ i = Len(ts)
    /\ rv' = NoErr
    /\ pc' = "done"
    /\ UNCHANGED <<GO_VERSION, cfg, dist, dirs, closures, Executables, op, plans, items, root, visited, result, err,
                   call, stack, ts, i, log, expanded>>

DfsStep ==
    \/ dfsCycle
    \/ dfsDone
    \/ dfsUnknown
    \/ dfsVisit
    \/ dfsRange
    \/ dfsReturn
    \/ dfsFail

Next ==
    \/ RunTargetUnsupported
    \/ RunTargetResolve
    \/ DfsStep
    \/ RunTargetOrderErr
    \/ RunTargetOrderOk
    \/ RunTargetInvoke
    \/ RunTargetActionOk
    \/ RunTargetActionErr
    \/ RunTargetReturn

Spec == Init /\ [][Next]_vars

\* The resolver's steps are never postponed for ever: the program runs on
\* until it waits for an action, which is foreign code.
FairSpec ==
    Spec /\ WF_vars(DfsStep \/ RunTargetOrderErr \/ RunTargetOrderOk)

----
\* The setup of a registry by single calls of Add and AddDependency.

\* The names Add is called with.
SetupNames == {"A", "B"}

\* The names a dependency list can mention; C is never registered.
SetupDeps == {"A", "B", "C"}

\* NewBuilder, lines 78-79: the registry is empty.
SetupInit ==
    /\ GO_VERSION \in GoVersions
    /\ cfg = NoConfig
    /\ dist = <<>>
    /\ dirs = <<>>
    /\ closures = NoClosures
    /\ Executables = <<>>
    /\ op = NoOp
    /\ plans = <<>>
    /\ items = <<>>
    /\ pc = "setup"
    /\ root = NoName
    /\ visited = <<>>
    /\ result = <<>>
    /\ err = NoErr
    /\ call = NoName
    /\ stack = <<>>
    /\ ts = <<>>
    /\ i = 0
    /\ rv = NoErr
    /\ log = <<>>
    /\ expanded = <<>>

\* A call of Targets.Add; a panic ends the program.
CallAdd ==
    /\ pc = "setup"
    /\ \E name \in SetupNames, dependencies \in DepLists(SetupDeps),
          code \in BOOLEAN :
        LET st == Add(Setup(items), name, dependencies, code)
        IN /\ items' = st.items
           /\ pc' = IF st.panicked THEN "panic" ELSE "setup"
           /\ op' = [fn |-> "Add", name |-> name,
                     dependencies |-> dependencies, code |-> code,
                     panicked |-> st.panicked]
    /\ UNCHANGED <<GO_VERSION, cfg, dist, dirs, closures, Executables, plans, root, visited, result, err, call, stack,
                   ts, i, rv, log, expanded>>

\* A call of Target.AddDependency on a registered target.  The target passed
\* as dep is any Target value, registered or not.
CallAddDependency ==
    /\ pc = "setup"
    /\ \E t \in DOMAIN items, dep \in SetupDeps :
        /\ Len(items[t].Dependencies) < MaxDeps
        /\ LET st == AddDependency(Setup(items), t, dep)
           IN /\ items' = st.items
              /\ op' = [fn |-> "AddDependency", name |-> t,
                        dependencies |-> <<dep>>, code |-> FALSE,
                        panicked |-> st.panicked]
    /\ UNCHANGED <<GO_VERSION, cfg, dist, dirs, closures, Executables, plans, pc, root, visited, result, err, call,
                   stack, ts, i, rv, log, expanded>>

\* NewBuilder, line 116: the setup is over, the builder is handed out.
NewBuilderReturn ==
    /\ pc = "setup"
    /\ pc' = "idle"
    /\ UNCHANGED <<GO_VERSION, cfg, dist, dirs, closures, Executables, op, plans, items, root, visited, result, err,
                   call, stack, ts, i, rv, log, expanded>>

SetupNext ==
    \/ CallAdd
    \/ CallAddDependency
    \/ NewBuilderReturn
    \/ Next

SetupSpec == SetupInit /\ [][SetupNext]_vars

----
\* Several calls of RunTarget on one registry.

\* The number of calls of RunTarget that reach the resolver.
MaxRuns == 2

\* Variant: the marks of the resolution before are kept.
RunTargetAgainKeepsVisited ==
    /\ pc = "done"
    /\ rv # VersionErr
    /\ Len(plans) < MaxRuns
    /\ call' = root
    /\ result' = <<>>
    /\ err' = NoErr
    /\ ts' = <<>>
    /\ i' = 0
    /\ rv' = NoErr
    /\ expanded' = <<>>
    /\ pc' = "dfs"
    /\ UNCHANGED <<GO_VERSION, cfg, dist, dirs, closures, Executables, op, plans, items, root, stack, log, visited>>

\* RunTarget, lines 19-24, and ComputeTargetRunOrder, lines 36-39: the
\* caller asks for the same target once more; the toolchain has not changed
\* since the call before.
RunTargetAgain ==
    /\ pc = "done"
    /\ rv # VersionErr
    /\ Len(plans) < MaxRuns
    /\ call' = root
    /\ result' = <<>>
    /\ visited' = <<>>
    /\ err' = NoErr
    /\ ts' = <<>>
    /\ i' = 0
    /\ rv' = NoErr
    /\ expanded' = <<>>
    /\ pc' = "dfs"
    /\ UNCHANGED <<GO_VERSION, cfg, dist, dirs, closures, Executables, op, plans, items, root, stack, log>>

RerunNext ==
    \/ RunTargetAgain
    \/ Next

RerunSpec == Init /\ [][RerunNext]_vars

----
\* The default targets, synthesized from the executables found.

\* The names of the executables.
ExecNames == {"A", "B"}

\* The OS/architecture pairs of the toolchain, in the order of their names.
ArchOrder == <<"linux/amd64", "windows/amd64">>

ArchNames == {ArchOrder[r] : r \in DOMAIN ArchOrder}

\* Most executables of a project.
MaxExecs == 2

\* Longest list of architecture selectors of a configuration.
MaxSelectors == 2

\* Where an architecture stands in the order of the names.
ArchRank(arch) == CHOOSE r \in DOMAIN ArchOrder : ArchOrder[r] = arch

\* What "go tool dist list" can print: nothing, or its lines, each split at
\* "/" as strings.Split(a, "/") splits it.
DistOutputs == {<<>>, <<<<"linux", "amd64">>, <<"windows", "amd64">>>>}

\* A line put together again.
Join(parts) ==
    IF Len(parts) = 1 THEN parts[1] ELSE parts[1] \o "/" \o parts[2]

\* listAvailableArchs, line 372: strings.Split(list, "\n") of the output
\* without its last line break; of an empty output it is one empty line.
SplitLines(out) == IF out = <<>> THEN <<<<"">>>> ELSE out

\* listAvailableArchs: every line is filed under its OS and under itself.
listAvailableArchs(out) ==
    LET arr == SplitLines(out)
        adds == [n \in 1..(2 * Len(arr)) |->
                    LET a == arr[(n + 1) \div 2]
                    IN IF n % 2 = 1 THEN <<a[1], Join(a)>>
                       ELSE <<Join(a), Join(a)>>]
        Under(k) == {n \in DOMAIN adds : adds[n][1] = k}
    IN [k \in {adds[n][1] : n \in DOMAIN adds} |->
           [q \in 1..Cardinality(Under(k)) |->
               adds[CHOOSE n \in Under(k) :
                        Cardinality({x \in Under(k) : x <= n}) = q][2]]]

\* ListArchs, line 296: strings.Index(k, "/") > 0 for a key of the map.
HasSlash(out, k) ==
    \E n \in DOMAIN SplitLines(out) :
        LET a == SplitLines(out)[n]
        IN Len(a) >= 2 /\ a[1] # "" /\ Join(a) = k

\* A slice of strings: nil, or a list that can be empty.
NilSlice == [isNil |-> TRUE, elems |-> <<>>]

Slice(elems) == [isNil |-> FALSE, elems |-> elems]

\* The selectors a configuration can name: an OS, two pairs, and an OS the
\* toolchain does not know.
Selectors == {"linux", "linux/amd64", "windows/amd64", "plan9"}

\* BuilderConfig.Archs
ArchSelections ==
    {NilSlice} \cup
    {Slice(elems) : elems \in UNION {[1..n -> Selectors] : n \in 0..MaxSelectors}}

\* errors.Errorf("OS/ARCH not available: '%v'", a)
ArchErr(a) == [kind |-> "arch", name |-> a]

\* The lists in a list, one after the other.
RECURSIVE Flatten(_)
Flatten(lists) ==
    IF lists = <<>> THEN <<>> ELSE Head(lists) \o Flatten(Tail(lists))

\* The elements of a set in some order.
RECURSIVE Enumerate(_)
Enumerate(S) ==
    IF S = {} THEN <<>>
    ELSE LET x == CHOOSE y \in S : TRUE IN <<x>> \o Enumerate(S \ {x})

\* ListArchs, lines 303-305: sort.Slice by the order of the strings.
RECURSIVE Sort(_)
Sort(archs) ==
    IF archs = <<>> THEN <<>>
    ELSE LET least == CHOOSE p \in DOMAIN archs :
                         \A q \in DOMAIN archs :
                             /\ ArchRank(archs[p]) <= ArchRank(archs[q])
                             /\ ArchRank(archs[p]) = ArchRank(archs[q]) => p <= q
         IN <<archs[least]>> \o
            Sort([q \in 1..(Len(archs) - 1) |->
                     IF q < least THEN archs[q] ELSE archs[q + 1]])

\* Builder.ListArchs
ListArchs(out, desired) ==
    LET available == listAvailableArchs(out)
        absent == {n \in DOMAIN desired.elems :
                      desired.elems[n] \notin DOMAIN available}
    IN IF Len(desired.elems) > 0
       THEN IF absent # {}
            THEN [result |-> <<>>,
                  err |-> ArchErr(desired.elems[CHOOSE n \in absent :
                                                   \A x \in absent : n <= x])]
            ELSE [result |-> Sort(Flatten([n \in DOMAIN desired.elems |->
                                              available[desired.elems[n]]])),
                  err |-> NoErr]
       ELSE [result |-> Sort(Enumerate({k \in DOMAIN available :
                                           HasSlash(out, k)})),
             err |-> NoErr]

\* The names of the directories with a main file, in the order the walk
\* finds them; two directories can have one base name.
MainDirs == UNION {[1..n -> ExecNames] : n \in 0..MaxExecs}

\* createExecutables: one ExecutableInfo per directory found, all of them
\* with the architectures of ListArchs.
createExecutables(names, archs) ==
    [k \in DOMAIN names |-> [Name |-> names[k], Archs |-> archs]]

\* A variable declared in a loop body: every round has a cell of its own.
Declare(st, value) ==
    IF st.panicked THEN st ELSE [st EXCEPT !.cells = Append(@, value)]

\* The variable declared last, and the one before it.
Last(st) == [cell |-> Len(st.cells)]

LastButOne(st) == [cell |-> Len(st.cells) - 1]

\* The variable of a range loop: one for all the rounds (go.mod: go 1.17).
LoopVar(name) == [cell |-> 0, loop |-> name]

\* A func literal: the function it calls and the variables it refers to.
FuncLit(st, name, fn, ee, aa) ==
    IF st.panicked THEN st
    ELSE [st EXCEPT !.funcs =
             [n \in DOMAIN @ \cup {name} |->
                 IF n = name THEN [fn |-> fn, ee |-> ee, aa |-> aa] ELSE @[n]]]

\* The value of a variable when a function value reads it.
Deref(cl, ref) ==
    IF ref.cell > 0 THEN cl.cells[ref.cell]
    ELSE IF ref.loop = "exec" THEN cl.exec ELSE cl.arch

\* Variant: the build leaf is hung under the top aggregator.
forArchWrongParent(st, exec, arch) ==
    LET bet == "build:" \o exec.Name
        zet == "zip:" \o exec.Name
        beat == bet \o ":" \o arch
        zeat == zet \o ":" \o arch
        s1 == Add(st, beat, <<>>, TRUE)
        s2 == AddDependency(s1, "build", beat)
        s3 == Add(s2, zeat, <<beat>>, TRUE)
    IN AddDependency(s3, zet, zeat)

\* Variant: the build leaf is not made a dependency of its aggregator.
forArchUnwired(st, exec, arch) ==
    LET bet == "build:" \o exec.Name
        zet == "zip:" \o exec.Name
        beat == bet \o ":" \o arch
        zeat == zet \o ":" \o arch
        s1 == Add(st, beat, <<>>, TRUE)
        s3 == Add(s1, zeat, <<beat>>, TRUE)
    IN AddDependency(s3, zet, zeat)

\* Variant: the zip leaf is registered without dependency.
forArchZipAlone(st, exec, arch) ==
    LET bet == "build:" \o exec.Name
        zet == "zip:" \o exec.Name
        beat == bet \o ":" \o arch
        zeat == zet \o ":" \o arch
        s1 == Add(st, beat, <<>>, TRUE)
        s2 == AddDependency(s1, bet, beat)
        s3 == Add(s2, zeat, <<>>, TRUE)
    IN AddDependency(s3, zet, zeat)

\* Variant: the actions refer to the variables of the range loops.
forArchLoopVars(st, exec, arch) ==
    LET bet == "build:" \o exec.Name
        zet == "zip:" \o exec.Name
        beat == bet \o ":" \o arch
        zeat == zet \o ":" \o arch
        ee == LoopVar("exec")
        aa == LoopVar("arch")
        s1 == FuncLit(Add(st, beat, <<>>, TRUE), beat, "RunBuild", ee, aa)
        s2 == AddDependency(s1, bet, beat)
        s3 == FuncLit(Add(s2, zeat, <<beat>>, TRUE), zeat, "RunZip", ee, aa)
    IN AddDependency(s3, zet, zeat)

\* createDefaultTargets, lines 416-429: the leaves of one architecture.
\* ee and aa are declared in the body and the actions refer to them.
forArch(st, exec, arch) ==
    LET bet == "build:" \o exec.Name
        zet == "zip:" \o exec.Name
        beat == bet \o ":" \o arch
        zeat == zet \o ":" \o arch
        s0 == Declare(Declare(st, exec), arch)
        ee == LastButOne(s0)
        aa == Last(s0)
        s1 == FuncLit(Add(s0, beat, <<>>, TRUE), beat, "RunBuild", ee, aa)
        s2 == AddDependency(s1, bet, beat)
        s3 == FuncLit(Add(s2, zeat, <<beat>>, TRUE), zeat, "RunZip", ee, aa)
    IN AddDependency(s3, zet, zeat)

\* createDefaultTargets, line 416: the loop over exec.Archs.
RECURSIVE rangeArchs(_, _, _)
rangeArchs(st, exec, archs) ==
    IF archs = <<>> THEN st
    ELSE rangeArchs(forArch(IF st.panicked THEN st
                            ELSE [st EXCEPT !.arch = Head(archs)],
                            exec, Head(archs)),
                    exec, Tail(archs))

\* createDefaultTargets, lines 409-430: the targets of one executable.
forExec(st, exec) ==
    LET bet == "build:" \o exec.Name
        zet == "zip:" \o exec.Name
        s1 == Add(st, bet, <<>>, FALSE)
        s2 == AddDependency(s1, "build", bet)
        s3 == Add(s2, zet, <<>>, FALSE)
        s4 == AddDependency(s3, "zip", zet)
    IN rangeArchs(s4, exec, exec.Archs)

\* createDefaultTargets, line 409: the loop over b.Executables.
RECURSIVE rangeExecutables(_, _)
rangeExecutables(st, execs) ==
    IF execs = <<>> THEN st
    ELSE rangeExecutables(forExec(IF st.panicked THEN st
                                  ELSE [st EXCEPT !.exec = Head(execs)],
                                  Head(execs)),
                          Tail(execs))

\* Variant: clean-zip is made a dependency of zip after the executables.
createDefaultTargetsCleanLast(st, execs) ==
    LET s1 == Add(st, "generate", <<>>, TRUE)
        s2 == Add(s1, "test", <<>>, TRUE)
        s3 == Add(s2, "clean-zip", <<>>, TRUE)
        s4 == Add(s3, "build", <<>>, FALSE)
        s5 == Add(s4, "zip", <<>>, FALSE)
        s6 == AddDependency(rangeExecutables(s5, execs), "zip", "clean-zip")
    IN Add(s6, "all", <<"build", "test", "zip">>, FALSE)

\* Builder.createDefaultTargets
createDefaultTargets(st, execs) ==
    LET s1 == Add(st, "generate", <<>>, TRUE)
        s2 == Add(s1, "test", <<>>, TRUE)
        s3 == Add(s2, "clean-zip", <<>>, TRUE)
        s4 == Add(s3, "build", <<>>, FALSE)
        s5 == Add(s4, "zip", <<"clean-zip">>, FALSE)
        s6 == rangeExecutables(s5, execs)
    IN Add(s6, "all", <<"build", "test", "zip">>, FALSE)

\* NewBuilder, lines 64-108: the configuration is read, the toolchain and the
\* project are looked at; the registry is empty.
GridInit ==
    /\ GO_VERSION \in GoVersions
    /\ cfg \in [Archs : ArchSelections]
    /\ dist \in DistOutputs
    /\ dirs \in MainDirs
    /\ closures = NoClosures
    /\ Executables = <<>>
    /\ op = NoOp
    /\ plans = <<>>
    /\ items = <<>>
    /\ pc = "new"
    /\ root = NoName
    /\ visited = <<>>
    /\ result = <<>>
    /\ err = NoErr
    /\ call = NoName
    /\ stack = <<>>
    /\ ts = <<>>
    /\ i = 0
    /\ rv = NoErr
    /\ log = <<>>
    /\ expanded = <<>>

\* NewBuilder, lines 109-112: createExecutables resolves the architectures
\* and lists the executables; NewBuilder fails when ListArchs does.
CallCreateExecutables ==
    /\ pc = "new"
    /\ LET archs == ListArchs(dist, cfg.Archs)
       IN IF archs.err # NoErr
          THEN /\ pc' = "failed"
               /\ Executables' = Executables
          ELSE /\ pc' = "setup"
               /\ Executables' = createExecutables(dirs, archs.result)
    /\ UNCHANGED <<GO_VERSION, cfg, dist, dirs, closures, op, plans, items,
                   root, visited, result, err, call, stack, ts, i, rv, log,
                   expanded>>

\* NewBuilder, lines 114-116: createDefaultTargets fills the registry and
\* the builder is handed out, unless a call of Add has panicked.
CallCreateDefaultTargets ==
    /\ pc = "setup"
    /\ LET st == createDefaultTargets(Setup(items) @@ closures, Executables)
       IN /\ items' = st.items
          /\ closures' = [cells |-> st.cells, funcs |-> st.funcs,
                          exec |-> st.exec, arch |-> st.arch]
          /\ pc' = IF st.panicked THEN "panic" ELSE "idle"
          /\ op' = [fn |-> "createDefaultTargets", name |-> NoName,
                    dependencies |-> <<>>, code |-> FALSE,
                    panicked |-> st.panicked]
    /\ UNCHANGED <<GO_VERSION, cfg, dist, dirs, Executables, plans, root,
                   visited, result, err, call, stack, ts, i, rv, log, expanded>>

\* The default targets a build script hangs work of its own on, and what it
\* hangs there: a default target, or a name it has not registered.
HookTargets == {"generate", "test"}

HookDeps == {"all", "lint"}

\* A build script calls Target.AddDependency on a default target of the
\* builder it was handed, before it runs a target.
CallAddDependencyOnDefault ==
    /\ pc = "idle"
    /\ op.fn = "createDefaultTargets"
    /\ \E t \in HookTargets, dep \in HookDeps :
        LET st == AddDependency(Setup(items), t, dep)
        IN /\ items' = st.items
           /\ op' = [fn |-> "AddDependency", name |-> t,
                     dependencies |-> <<dep>>, code |-> FALSE,
                     panicked |-> st.panicked]
    /\ UNCHANGED <<GO_VERSION, cfg, dist, dirs, closures, Executables, plans, pc, root, visited, result, err, call,
                   stack, ts, i, rv, log, expanded>>

GridNext ==
    \/ CallCreateExecutables
    \/ CallCreateDefaultTargets
    \/ CallAddDependencyOnDefault
    \/ Next

GridSpec == GridInit /\ [][GridNext]_vars

----
\* Vocabulary of the properties.

\* The names a target lists as dependencies; none for an unregistered name.
DepsOf(n) ==
    IF n \in DOMAIN items
    THEN {items[n].Dependencies[k] : k \in 1..Len(items[n].Dependencies)}
    ELSE {}

\* The names reached from the names S along dependency lists, S included.
RECURSIVE Reach(_)
Reach(S) ==
    LET T == S \cup UNION {DepsOf(n) : n \in S}
    IN IF T = S THEN S ELSE Reach(T)

\* The transitive dependencies of n.
TransDeps(n) == Reach(DepsOf(n))

\* The registered targets that carry an action.
WithAction == {n \in DOMAIN items : items[n].run}

\* Some target reachable from n depends on itself.
Cyclic(n) == \E m \in Reach({n}) : m \in TransDeps(m)

\* n, or a name referenced from n, is not registered.
Dangling(n) == \E m \in Reach({n}) : m \notin DOMAIN items

\* ComputeTargetRunOrder has returned to RunTarget.
OrderReturned == pc \in {"loop", "action", "done"} /\ rv # VersionErr

OrderSucceeded == OrderReturned /\ err = NoErr

OrderFailed == OrderReturned /\ err # NoErr

\* The positions of the log holding the event ev.
Events(ev) == {q \in 1..Len(log) : log[q].ev = ev}

\* The targets whose action was invoked, in the order of the invocations.
Invoked == [q \in 1..Cardinality(Events("call")) |->
               log[CHOOSE e \in Events("call") :
                      Cardinality({x \in Events("call") : x <= e}) = q].n]

\* How often the action of step k of the plan was invoked.
InvokedAt(k) == Cardinality({q \in Events("call") : log[q].i = k})

NoDuplicates(seq) ==
    \A p, q \in 1..Len(seq) : seq[p] = seq[q] => p = q

----
\* C1: in a plan returned by ComputeTargetRunOrder, a name that is a
\* transitive dependency of another name of the plan, through targets with
\* or without action, stands strictly before it.
C1_TopologicalOrder ==
    OrderSucceeded =>
        \A p, q \in 1..Len(ts) : ts[p] \in TransDeps(ts[q]) => p < q

\* A plan in which a target precedes one that depends on it only through
\* another target.
C1_Witness ==
    /\ OrderSucceeded
    /\ \E p, q \in 1..Len(ts) :
        /\ ts[p] \in TransDeps(ts[q])
        /\ ts[p] \notin DepsOf(ts[q])
        /\ p < q

\* C2: when the action of a target is invoked, the action of each of its
\* transitive dependencies that has one has returned, and no two actions are
\* ever in progress together.
C2_ActionsInOrder ==
    /\ Cardinality(Events("call"))
           - Cardinality(Events("return") \cup Events("failed")) \in {0, 1}
    /\ \A q \in Events("call") :
        \A a \in TransDeps(log[q].n) \cap WithAction :
            \E p \in Events("return") \cup Events("failed") :
                p < q /\ log[p].n = a

\* The action of a target is in progress after the action of one of its
\* transitive dependencies.
C2_Witness ==
    /\ pc = "action"
    /\ \E a \in TransDeps(ts[i + 1]) \cap WithAction :
          a \notin DepsOf(ts[i + 1])

\* C3: once the action of step k has failed, RunTarget has returned that
\* failure, the actions of the steps up to k were invoked exactly once each
\* and no action of a later step was invoked.
C3_StopAtFirstFailure ==
    \A q \in Events("failed") :
        /\ pc = "done"
        /\ rv = ActionErr(log[q].n)
        /\ rv # NoErr
        /\ log[q].n = ts[log[q].i + 1]
        /\ \A k \in 0..(Len(ts) - 1) :
              InvokedAt(k) = IF k <= log[q].i THEN 1 ELSE 0

\* The second step of a plan of three steps has failed.
C3_Witness ==
    /\ pc = "done"
    /\ rv.kind = "action"
    /\ Len(ts) = 3
    /\ i = 1
    /\ Events("failed") # {}

\* C4: when RunTarget returns success, the actions invoked are those of the
\* plan, in its order and once each, the plan comes from one walk from the
\* root, and it holds exactly the targets with an action that are reachable
\* from the root.
C4_SuccessRunsThePlan ==
    (pc = "done" /\ rv = NoErr) =>
        /\ Invoked = ts
        /\ NoDuplicates(Invoked)
        /\ {ts[p] : p \in 1..Len(ts)} = Reach({root}) \cap WithAction
        /\ Expanded(root) = 1

\* A successful run of several steps that leaves out a target with an
\* action that the root does not reach.
C4_Witness ==
    /\ pc = "done"
    /\ rv = NoErr
    /\ Len(ts) >= 2
    /\ WithAction \ Reach({root}) # {}

\* The registry is the diamond D -> {B, C}, B -> A, C -> A.
IsDiamond ==
    /\ DOMAIN items = {"A", "B", "C", "D"}
    /\ DepsOf("D") = {"B", "C"}
    /\ DepsOf("B") = {"A"}
    /\ DepsOf("C") = {"A"}
    /\ DepsOf("A") = {}

\* The positions of the name n in the returned plan.
PositionsOf(n) == {p \in 1..Len(ts) : ts[p] = n}

\* C5: no name occurs twice in a sequence returned by ComputeTargetRunOrder,
\* and resolving D in the diamond places A once, before B and before C.
C5_NoDuplicates ==
    /\ OrderReturned => NoDuplicates(ts)
    /\ (OrderSucceeded /\ IsDiamond /\ root = "D" /\ items["A"].run) =>
        /\ Cardinality(PositionsOf("A")) = 1
        /\ \A n \in {"B", "C"} : \A p \in PositionsOf(n) :
              \A a \in PositionsOf("A") : a < p

\* The diamond with an action on every target, resolved from D.
C5_Witness ==
    /\ OrderSucceeded
    /\ IsDiamond
    /\ root = "D"
    /\ WithAction = {"A", "B", "C", "D"}
    /\ Len(ts) = 4

\* C6 as claimed: if a target reachable from the root depends on itself,
\* ComputeTargetRunOrder fails with the cycle error and returns no sequence.
C6_CycleErrorAlways ==
    (OrderReturned /\ Cyclic(root)) => (err = CycleErr /\ ts = <<>>)

\* C6, amended: if a target reachable from the root depends on itself,
\* ComputeTargetRunOrder fails and returns no sequence; the error is the
\* cycle error when every name reachable from the root is registered, and
\* the cycle error or the unknown-target error otherwise.
C6_CycleFails ==
    (OrderReturned /\ Cyclic(root)) =>
        /\ err.kind \in {"cycle", "unknown"}
        /\ ts = <<>>
        /\ ~Dangling(root) => err = CycleErr

\* A cycle of several targets, none of which has an action, was reported.
C6_Witness ==
    /\ OrderReturned
    /\ Cyclic(root)
    /\ err = CycleErr
    /\ root \notin DepsOf(root)
    /\ Reach({root}) \cap WithAction = {}

\* C7: ComputeTargetRunOrder returns for every registry and every root, and
\* it starts the loop over the dependency list of a target at most once.
C7_Terminates ==
    /\ [](\A n \in DOMAIN expanded : expanded[n] <= 1)
    /\ [](DOMAIN expanded \subseteq DOMAIN items)
    /\ (pc = "dfs") ~> OrderReturned

\* The resolver has returned although the root reaches a cycle and a target
\* is the dependency of two targets.
C7_Witness ==
    /\ OrderReturned
    /\ Cyclic(root)
    /\ \E n \in DOMAIN items : \E a, b \in DOMAIN items :
          a # b /\ n \in DepsOf(a) /\ n \in DepsOf(b) /\ Expanded(n) = 1

\* C8 as claimed: if the root or a name referenced from it is not
\* registered, ComputeTargetRunOrder fails with the unknown-target error
\* that carries the absent name.
C8_UnknownErrorAlways ==
    (OrderReturned /\ Dangling(root)) =>
        /\ err.kind = "unknown"
        /\ err.name \in Reach({root}) \ DOMAIN items

\* C8, amended: if the root or a name referenced from it is not registered,
\* ComputeTargetRunOrder fails; the error is the unknown-target error when
\* no target reachable from the root depends on itself, and the
\* unknown-target or the cycle error otherwise; an unknown-target error
\* carries a name that is referenced from the root and not registered.
C8_UnknownFails ==
    /\ (OrderReturned /\ Dangling(root)) =>
        /\ err.kind \in {"cycle", "unknown"}
        /\ ts = <<>>
        /\ ~Cyclic(root) => err.kind = "unknown"
    /\ (OrderReturned /\ err.kind = "unknown") =>
          err.name \in Reach({root}) \ DOMAIN items

\* An unknown-target error for a name that is neither the root nor one of
\* its direct dependencies.
C8_Witness ==
    /\ OrderReturned
    /\ err.kind = "unknown"
    /\ err.name # root
    /\ err.name \notin DepsOf(root)
    /\ root \in DOMAIN items

\* C9: when ComputeTargetRunOrder fails it returns the nil slice, and
\* RunTarget has returned that error with no action invoked and nothing
\* printed.
C9_FailureReturnsNothing ==
    OrderFailed =>
        /\ ts = <<>>
        /\ pc = "done"
        /\ rv = err
        /\ log = <<>>

\* The resolver failed after a target with an action was scheduled.
C9_Witness ==
    /\ OrderFailed
    /\ \E n \in WithAction : Visited(n) = 2

\* C10: a target without action is never part of the result of the
\* resolver, neither while it is built nor when it is returned, so the plan
\* of a root that reaches no action is empty.
C10_AggregatorsLeftOut ==
    /\ \A p \in 1..Len(result) : result[p] \in WithAction
    /\ OrderReturned => \A p \in 1..Len(ts) : ts[p] \in WithAction
    /\ (OrderSucceeded /\ Reach({root}) \cap WithAction = {}) => ts = <<>>

\* A plan resolved from a root without action through another target
\* without action.
C10_Witness ==
    /\ OrderSucceeded
    /\ root \notin WithAction
    /\ \E n \in DepsOf(root) \ WithAction : DepsOf(n) \cap WithAction # {}
    /\ ts # <<>>

\* The names of the plan returned by the resolver.
Planned == {ts[p] : p \in 1..Len(ts)}

\* C11: a plan returned by ComputeTargetRunOrder holds exactly the targets
\* with an action that are reachable from the root, the root included, along
\* dependency lists of targets with or without action.
C11_PlanIsReachableActions ==
    OrderSucceeded => Planned = Reach({root}) \cap WithAction

\* A plan with a target that the root reaches only through a target
\* without action.
C11_Witness ==
    /\ OrderSucceeded
    /\ root \in WithAction
    /\ \E a \in Planned \ (DepsOf(root) \cup {root}) :
          \A n \in DOMAIN items : a \in DepsOf(n) => ~items[n].run

\* C12: Add with a registered name panics whatever list and action it is
\* given and leaves the registry as it was, and every registered name maps
\* to a target of that name.
C12_AddRejectsDuplicate ==
    /\ [](\A n \in DOMAIN items : items[n].Name = n)
    /\ [][(CallAdd /\ op'.name \in DOMAIN items) =>
              (op'.panicked /\ pc' = "panic" /\ items' = items)]_vars

\* Add has panicked on a registered name, called with another list and
\* another action than the registered target has.
C12_Witness ==
    /\ pc = "panic"
    /\ op.fn = "Add"
    /\ op.name \in DOMAIN items
    /\ op.dependencies # items[op.name].Dependencies
    /\ op.dependencies # <<>>
    /\ op.code # items[op.name].run

\* The set of the elements of a sequence.
Range(seq) == {seq[p] : p \in 1..Len(seq)}

\* The targets in the order in which a depth-first walk from n finishes
\* them, the targets of seen left out; for a registry without cycle and
\* without unregistered name below n.
RECURSIVE PostOrder(_, _, _), PostOrderList(_, _, _)
PostOrder(reg, seen, n) ==
    PostOrderList(reg, seen, reg[n].Dependencies) \o <<n>>

PostOrderList(reg, seen, list) ==
    IF list = <<>> THEN <<>>
    ELSE LET first == IF Head(list) \in seen THEN <<>>
                      ELSE PostOrder(reg, seen, Head(list))
         IN first \o PostOrderList(reg, seen \cup Range(first), Tail(list))

HasAction(reg, seq, p) == reg[seq[p]].run

\* The targets with an action, in the order a depth-first walk from n
\* finishes them.
PlanOf(reg, n) ==
    LET all == PostOrder(reg, {}, n)
        keep == {p \in 1..Len(all) : HasAction(reg, all, p)}
    IN [q \in 1..Cardinality(keep) |->
           all[CHOOSE p \in keep : Cardinality({x \in keep : x <= p}) = q]]

\* The registry without the targets outside S.
Restricted(reg, S) == [n \in DOMAIN reg \cap S |-> reg[n]]

\* C13: Add and AddDependency take names that are not registered without
\* failing, and when the part of the registry that the root reaches has no
\* cycle and no unregistered name, ComputeTargetRunOrder succeeds with the
\* plan of the registry cut down to that part, whatever the other targets
\* list.
C13_UnreachableIgnored ==
    /\ [][(CallAdd /\ op'.name \notin DOMAIN items) =>
              /\ ~op'.panicked
              /\ pc' = "setup"
              /\ DOMAIN items' = DOMAIN items \cup {op'.name}
              /\ items'[op'.name] =
                     NewTarget(op'.name, op'.dependencies, op'.code)]_vars
    /\ [][CallAddDependency =>
              /\ ~op'.panicked
              /\ pc' = "setup"
              /\ items'[op'.name].Dependencies =
                     items[op'.name].Dependencies \o op'.dependencies]_vars
    /\ [](OrderReturned /\ ~Cyclic(root) /\ ~Dangling(root) =>
              /\ err = NoErr
              /\ ts = PlanOf(Restricted(items, Reach({root})), root))

\* A plan was returned although a target that the root does not reach
\* lists itself and a name that AddDependency added and nobody registered.
C13_Witness ==
    /\ OrderSucceeded
    /\ ts # <<>>
    /\ op.fn = "AddDependency"
    /\ op.name \notin Reach({root})
    /\ op.dependencies = <<"C">>
    /\ op.name \in DepsOf(op.name)
    /\ "C" \notin DOMAIN items

\* C14: the calls of ComputeTargetRunOrder with one root on one registry
\* return the same, and a returned plan is the order in which a depth-first
\* walk, taking the dependencies of a target in the order of its list,
\* finishes the targets with an action, each at its first visit.
C14_Deterministic ==
    /\ \A p, q \in 1..Len(plans) : plans[p] = plans[q]
    /\ (OrderReturned /\ ~Cyclic(root) /\ ~Dangling(root)) =>
          (err = NoErr /\ ts = PlanOf(items, root))

\* The second resolution of the diamond, after a first run that failed.
C14_Witness ==
    /\ Len(plans) = 2
    /\ Events("failed") # {}
    /\ IsDiamond
    /\ root = "D"
    /\ WithAction = {"A", "B", "C", "D"}
    /\ OrderSucceeded

\* C15: when an action fails nothing more is invoked or printed, RunTarget
\* has returned the failure, and the error notification, the last line
\* printed, carries the name of the failed target, its index in the plan and
\* the length of the plan.
C15_FailureIsIdentified ==
    \A q \in Events("failed") :
        /\ pc = "done"
        /\ rv.kind = "action"
        /\ Len(log) = q + 1
        /\ log[q + 1].ev = "error"
        /\ log[q + 1].n = log[q].n
        /\ log[q + 1].n = ts[log[q + 1].i + 1]
        /\ log[q + 1].i = Cardinality(Events("return"))
        /\ log[q + 1].len = Len(ts)

\* A failure of a step that is neither the first of the plan nor the
\* target asked for.
C15_Witness ==
    /\ pc = "done"
    /\ Events("failed") # {}
    /\ log[Len(log)].ev = "error"
    /\ log[Len(log)].n # root
    /\ log[Len(log)].i >= 1
    /\ log[Len(log)].i + 1 < log[Len(log)].len

\* C16: the progress notification of a step is printed right before its
\* action is invoked and, but for the first step, right after the action of
\* the step before has returned; an error notification is printed right
\* after the action of its step has failed, and nothing is printed after it.
C16_NotificationsInOrder ==
    /\ \A q \in Events("call") :
        /\ q > 1
        /\ log[q - 1].ev = "executing"
        /\ log[q - 1].i = log[q].i
        /\ log[q - 1].n = log[q].n
    /\ \A q \in Events("executing") :
        /\ q < Len(log)
        /\ log[q + 1].ev = "call"
        /\ IF log[q].i = 0 THEN q = 1
           ELSE /\ q > 1
                /\ log[q - 1].ev = "return"
                /\ log[q - 1].i = log[q].i - 1
    /\ \A q \in Events("error") :
        /\ q > 1
        /\ log[q - 1].ev = "failed"
        /\ log[q - 1].i = log[q].i
        /\ q = Len(log)

\* The third step is in progress, or has failed, after two that succeeded.
C16_Witness ==
    /\ Cardinality(Events("executing")) = 3
    /\ Cardinality(Events("return")) = 2
    /\ Events("error") # {}

----
\* The default targets.

\* createDefaultTargets has returned and the registry is as it left it.
Synthesized == op.fn = "createDefaultTargets" /\ ~op.panicked

\* The executables A and B, each built for linux/amd64 and windows/amd64.
GridAB ==
    <<[Name |-> "A", Archs |-> <<"linux/amd64", "windows/amd64">>],
      [Name |-> "B", Archs |-> <<"linux/amd64", "windows/amd64">>]>>

\* The names createDefaultTargets gives to the targets of an executable and
\* of one of its architectures.
BuildOf(exec) == "build:" \o exec.Name

ZipOf(exec) == "zip:" \o exec.Name

BuildLeaf(exec, arch) == "build:" \o exec.Name \o ":" \o arch

ZipLeaf(exec, arch) == "zip:" \o exec.Name \o ":" \o arch

\* The leaves of an executable, one per architecture, in their order.
BuildLeaves(exec) ==
    [j \in 1..Len(exec.Archs) |-> BuildLeaf(exec, exec.Archs[j])]

\* C17: after createDefaultTargets, build is a target without action whose
\* dependency list names build:E of every executable E, in their order and
\* nothing else; build:E is a target without action whose dependency list
\* names the leaves build:E:X of its own architectures X, in their order and
\* nothing else; every leaf is a target with an action. For A and B on
\* linux/amd64 and windows/amd64 these are build -> [build:A, build:B] and
\* build:E -> [build:E:linux/amd64, build:E:windows/amd64].
C17_BuildGrid ==
    Synthesized =>
        /\ Get("build") =
               NewTarget("build",
                         [k \in 1..Len(Executables) |-> BuildOf(Executables[k])],
                         FALSE)
        /\ \A k \in 1..Len(Executables) :
               LET exec == Executables[k]
               IN /\ Get(BuildOf(exec)) =
                         NewTarget(BuildOf(exec), BuildLeaves(exec), FALSE)
                  /\ \A j \in 1..Len(exec.Archs) :
                         Get(BuildLeaf(exec, exec.Archs[j])) =
                             NewTarget(BuildLeaf(exec, exec.Archs[j]), <<>>, TRUE)
        /\ Executables = GridAB =>
               /\ Get("build").Dependencies = <<"build:A", "build:B">>
               /\ Get("build:A") =
                      NewTarget("build:A",
                                <<"build:A:linux/amd64", "build:A:windows/amd64">>,
                                FALSE)
               /\ Get("build:B") =
                      NewTarget("build:B",
                                <<"build:B:linux/amd64", "build:B:windows/amd64">>,
                                FALSE)
               /\ \A n \in {"build:A:linux/amd64", "build:A:windows/amd64",
                            "build:B:linux/amd64", "build:B:windows/amd64"} :
                      Get(n) = NewTarget(n, <<>>, TRUE)

\* createDefaultTargets has returned the builder of A and B on two
\* architectures each.
C17_Witness ==
    /\ Synthesized
    /\ pc = "idle"
    /\ Executables = GridAB

\* ComputeTargetRunOrder("build") has succeeded on the default targets of A
\* and B.
BuildResolved ==
    /\ Synthesized
    /\ Executables = GridAB
    /\ OrderSucceeded
    /\ root = "build"

\* C18, as stated: the plan of build holds every build leaf before the
\* aggregator of its executable, and does not hold build.
C18_LeavesBeforeAggregators ==
    BuildResolved =>
        /\ \A k \in 1..2 : \A j \in 1..2 :
               \E p, q \in 1..Len(ts) :
                   /\ p < q
                   /\ ts[p] = BuildLeaf(GridAB[k], GridAB[k].Archs[j])
                   /\ ts[q] = BuildOf(GridAB[k])
        /\ "build" \notin Planned

\* C18: the plan of build on the default targets of A and B is the four
\* build leaves, each once, those of A before those of B and linux/amd64
\* before windows/amd64; neither build:A, build:B nor build is in it.
C18_BuildPlanIsTheLeaves ==
    BuildResolved =>
        /\ ts = <<"build:A:linux/amd64", "build:A:windows/amd64",
                  "build:B:linux/amd64", "build:B:windows/amd64">>
        /\ Planned \cap {"build", "build:A", "build:B"} = {}

C18_Witness ==
    /\ BuildResolved
    /\ Len(ts) = 4

\* C19: after createDefaultTargets, the leaf zip:E:X of every executable E
\* and architecture X is a target with an action whose dependency list is
\* [build:E:X], and its plan is [build:E:X, zip:E:X].
C19_ZipLeafAfterItsBuild ==
    Synthesized =>
        \A k \in 1..Len(Executables) :
            \A j \in 1..Len(Executables[k].Archs) :
                LET beat == BuildLeaf(Executables[k], Executables[k].Archs[j])
                    zeat == ZipLeaf(Executables[k], Executables[k].Archs[j])
                IN /\ Get(zeat) = NewTarget(zeat, <<beat>>, TRUE)
                   /\ (OrderReturned /\ root = zeat) =>
                          /\ err = NoErr
                          /\ ts = <<beat, zeat>>

\* The leaf zip:A:linux/amd64 has been resolved where other leaves exist.
C19_Witness ==
    /\ Synthesized
    /\ OrderSucceeded
    /\ root = "zip:A:linux/amd64"
    /\ Len(Executables) = 2
    /\ Len(ts) = 2

\* The names of the per-executable aggregators of the executables that have
\* no architecture.
EmptyAggregators ==
    UNION {{BuildOf(Executables[k]), ZipOf(Executables[k])} :
               k \in {x \in 1..Len(Executables) : Executables[x].Archs = <<>>}}

\* C20: after createDefaultTargets, an executable E without architectures
\* has the targets build:E and zip:E, without action and with an empty
\* dependency list, and no leaf; the plan of build:E or zip:E is empty, and
\* RunTarget on it, once past the version check, returns nil and has invoked
\* no action.
C20_NoArchitectures ==
    Synthesized =>
        /\ \A k \in 1..Len(Executables) :
               LET exec == Executables[k]
               IN exec.Archs = <<>> =>
                      /\ BuildOf(exec) \in DOMAIN items
                      /\ ZipOf(exec) \in DOMAIN items
                      /\ items[BuildOf(exec)] = NewTarget(BuildOf(exec), <<>>, FALSE)
                      /\ items[ZipOf(exec)] = NewTarget(ZipOf(exec), <<>>, FALSE)
                      /\ \A arch \in ArchNames :
                             /\ BuildLeaf(exec, arch) \notin DOMAIN items
                             /\ ZipLeaf(exec, arch) \notin DOMAIN items
        /\ (OrderReturned /\ root \in EmptyAggregators) =>
               /\ err = NoErr
               /\ ts = <<>>
               /\ pc \in {"loop", "done"}
               /\ log = <<>>
               /\ pc = "done" => rv = NoErr

\* RunTarget has returned from build:B, where no architecture was resolved
\* for the executables A and B.
C20_Witness ==
    /\ Synthesized
    /\ Executables = <<[Name |-> "A", Archs |-> <<>>],
                       [Name |-> "B", Archs |-> <<>>]>>
    /\ root = "build:B"
    /\ pc = "done"
    /\ rv = NoErr

----
\* The architectures and the actions of the grid.

\* createExecutables has returned without error.
ArchsResolved == pc \notin {"new", "failed"}

\* The OS/architecture pairs the toolchain has printed.
Printed == [n \in DOMAIN dist |-> Join(dist[n])]

\* C21, as stated: a configuration without selector resolves to every pair
\* the toolchain has, and an empty list of selectors does not resolve to
\* what an absent list resolves to.
C21_EmptyIsNotAbsent ==
    ArchsResolved =>
        \A k \in DOMAIN Executables :
            /\ Len(cfg.Archs.elems) = 0 => Executables[k].Archs = Printed
            /\ (cfg.Archs = Slice(<<>>) /\ dist # <<>>) =>
                   Executables[k].Archs # ListArchs(dist, NilSlice).result

\* What runs when the action of a grid leaf is invoked: the function the
\* func literal calls, with the values its variables hold by then.
Invocation(name) ==
    [fn |-> closures.funcs[name].fn,
     exec |-> Deref(closures, closures.funcs[name].ee),
     arch |-> Deref(closures, closures.funcs[name].aa)]

\* C24: after createDefaultTargets, the action of build:E:X runs RunBuild
\* with the executable E and the architecture X, the action of zip:E:X runs
\* RunZip with E and X, and every action of a leaf that RunTarget invokes
\* runs with the pair its name is made of.
C24_LeafRunsItsOwnPair ==
    (op.fn # "none" /\ ~op.panicked /\ pc \notin {"new", "setup"}) =>
        /\ \A k \in DOMAIN Executables :
               \A j \in DOMAIN Executables[k].Archs :
                   LET exec == Executables[k]
                       arch == Executables[k].Archs[j]
                   IN /\ Invocation(BuildLeaf(exec, arch)) =
                             [fn |-> "RunBuild", exec |-> exec, arch |-> arch]
                      /\ Invocation(ZipLeaf(exec, arch)) =
                             [fn |-> "RunZip", exec |-> exec, arch |-> arch]
        /\ \A q \in Events("call") :
               log[q].n \in DOMAIN closures.funcs =>
                   LET run == Invocation(log[q].n)
                   IN log[q].n \in {BuildLeaf(run.exec, run.arch),
                                    ZipLeaf(run.exec, run.arch)}

\* The action of build:A:linux/amd64 was invoked where the last round of
\* the loops was that of B and windows/amd64.
C24_Witness ==
    /\ Executables = GridAB
    /\ \E q \in Events("call") : log[q].n = "build:A:linux/amd64"
    /\ closures.exec.Name = "B"
    /\ closures.arch = "windows/amd64"

\* C27, as stated: whenever ListArchs accepts the selectors, createDefaultTargets
\* registers every name once and returns.
C27_SynthesisCompletes ==
    /\ pc # "panic"
    /\ op.fn = "createDefaultTargets" => ~op.panicked

\* The zip leaves and the build leaves of the grid.
ZipLeaves ==
    UNION {{ZipLeaf(Executables[k], Executables[k].Archs[j]) :
               j \in DOMAIN Executables[k].Archs} : k \in DOMAIN Executables}

BuildLeafNames ==
    UNION {{BuildLeaf(Executables[k], Executables[k].Archs[j]) :
               j \in DOMAIN Executables[k].Archs} : k \in DOMAIN Executables}

\* n stands before m in the plan.
Before(n, m) ==
    \E p, q \in DOMAIN ts : p < q /\ ts[p] = n /\ ts[q] = m

\* C28: in a plan of the default targets that holds clean-zip, clean-zip
\* stands before every zip leaf of the plan; the plan of all holds every
\* build leaf, test and clean-zip, every build leaf before test and test
\* before clean-zip.
C28_CleanBeforeZip ==
    (Synthesized /\ OrderSucceeded) =>
        /\ "clean-zip" \in Planned =>
               \A n \in ZipLeaves \cap Planned : Before("clean-zip", n)
        /\ root \in {"all", "zip"} =>
               /\ "clean-zip" \in Planned
               /\ ZipLeaves \subseteq Planned
        /\ root = "all" =>
               /\ BuildLeafNames \subseteq Planned
               /\ \A n \in BuildLeafNames : Before(n, "test")
               /\ Before("test", "clean-zip")

\* The plan of all where two executables have two architectures each.
C28_Witness ==
    /\ Synthesized
    /\ OrderSucceeded
    /\ Executables = GridAB
    /\ root = "all"
    /\ Cardinality(ZipLeaves \cap Planned) = 4

----
\* The engine and the registry.

\* C22: no step of RunTarget, ComputeTargetRunOrder, dfs or Get changes the
\* registry: the names registered, the dependency list and the action of
\* every target are after the step what they were before it, whether the
\* call succeeds or fails.
C22_RegistryUntouched == [][Next => items' = items]_vars

\* RunTarget has returned the error of an action, and a call of
\* ComputeTargetRunOrder before it the error of the resolver, on a registry
\* of two targets.
C22_Witness ==
    /\ pc = "done"
    /\ rv.kind \in {"action", "unknown", "cycle"}
    /\ Cardinality(DOMAIN items) = 2
    /\ \E n \in DOMAIN items : items[n].Dependencies # <<>>

\* Where in the log the runs begin that had a step to execute.
RunStarts == {q \in Events("executing") : log[q].i = 0}

\* The targets whose action was invoked from position q0 of the log on.
InvokedFrom(q0) ==
    LET calls == {q \in Events("call") : q >= q0}
    IN [k \in 1..Cardinality(calls) |->
           log[CHOOSE q \in calls :
                  Cardinality({x \in calls : x <= q}) = k].n]

\* C23: the second call of RunTarget with the same root resolves to what
\* the first resolved to, whether the first has succeeded or failed; it
\* walks the root anew, and it invokes the actions of the plan again from
\* the first on: all of them when it succeeds, those up to the failing one
\* when it fails.
C23_NothingCarriedOver ==
    Len(plans) = 2 =>
        /\ plans[2] = plans[1]
        /\ (OrderReturned /\ root \in DOMAIN items) => Expanded(root) = 1
        /\ (pc = "done" /\ ts # <<>>) =>
               /\ Cardinality(RunStarts) = 2
               /\ LET again == InvokedFrom(CHOOSE q \in RunStarts :
                                               \A x \in RunStarts : x <= q)
                  IN /\ rv = NoErr => again = ts
                     /\ rv # NoErr => again = SubSeq(ts, 1, i + 1)

\* A second run that has succeeded after a first that has failed, on a plan
\* of several steps.
C23_Witness ==
    /\ Len(plans) = 2
    /\ pc = "done"
    /\ rv = NoErr
    /\ Len(ts) >= 2
    /\ Events("failed") # {}

\* C25: ComputeTargetRunOrder reports a cycle only where a target reachable
\* from the root depends on itself; where none does and every name
\* reachable from the root is registered, it succeeds.
C25_NoFalseCycle ==
    /\ err = CycleErr => Cyclic(root)
    /\ (OrderReturned /\ ~Cyclic(root) /\ ~Dangling(root)) => err = NoErr

\* A resolution has succeeded where a target is listed by two targets, one
\* of them listing it twice and after it was done.
C25_Witness ==
    /\ OrderSucceeded
    /\ \E a, m \in DOMAIN items :
          /\ a # m /\ m # root
          /\ items[root].Dependencies = <<a, m>>
          /\ items[m].Dependencies = <<a, a>>

\* The walk of dfs from n, as one recursion: the marks it leaves and the
\* first error it meets, w holding the marks and the error so far.
RECURSIVE Walk(_, _, _), WalkList(_, _, _)
Walk(reg, w, n) ==
    IF n \in DOMAIN w.visited
    THEN IF w.visited[n] = 1 THEN [w EXCEPT !.err = CycleErr] ELSE w
    ELSE IF n \notin DOMAIN reg
         THEN [w EXCEPT !.err = [kind |-> "unknown", name |-> n]]
         ELSE LET below == WalkList(reg, [w EXCEPT !.visited = Mark(@, n, 1)],
                                    reg[n].Dependencies)
              IN IF below.err # NoErr THEN below
                 ELSE [below EXCEPT !.visited = Mark(@, n, 2)]

WalkList(reg, w, list) ==
    IF list = <<>> \/ w.err # NoErr THEN w
    ELSE WalkList(reg, Walk(reg, w, Head(list)), Tail(list))

FirstFailure == Walk(items, [visited |-> <<>>, err |-> NoErr], root)

\* C26: ComputeTargetRunOrder returns the one error a depth-first walk over
\* the dependency lists, each in its order, meets first, and has then
\* entered the targets this walk enters before it meets the error and no
\* other; a target on the path to the error stays in progress.
C26_FirstErrorOnly ==
    OrderReturned =>
        /\ err = FirstFailure.err
        /\ visited = FirstFailure.visited
        /\ \A n \in DOMAIN items :
               Expanded(n) = IF n \in DOMAIN FirstFailure.visited THEN 1 ELSE 0

\* A cycle was reported where a name reachable from the root is not
\* registered and a registered target reachable from the root was never
\* entered.
C26_Witness ==
    /\ OrderFailed
    /\ err = CycleErr
    /\ Dangling(root)
    /\ \E n \in Reach({root}) \cap DOMAIN items : n \notin DOMAIN visited

\* C29: with a toolchain older than the project needs, RunTarget returns
\* the version error and nothing else has happened: no call of
\* ComputeTargetRunOrder, no walk, no notification, no action.
C29_VersionGate ==
    /\ GO_VERSION < MinGoVersion =>
           /\ pc \in {"idle", "done"}
           /\ pc = "done" => rv = VersionErr
           /\ plans = <<>>
           /\ visited = <<>>
           /\ expanded = <<>>
           /\ log = <<>>
           /\ ts = <<>>
    /\ rv = VersionErr => GO_VERSION < MinGoVersion

\* RunTarget has returned the version error for a root that is not
\* registered, and for one that depends on itself.
C29_Witness ==
    /\ pc = "done"
    /\ rv = VersionErr
    /\ root \notin DOMAIN items \/ Cyclic(root)
    /\ DOMAIN items # {}

\* The positions printed with the "Executing" lines, in their order.
Positions ==
    [k \in 1..Cardinality(Events("executing")) |->
        log[CHOOSE q \in Events("executing") :
               Cardinality({x \in Events("executing") : x <= q}) = k].i]

\* C30: every notification carries a position below the length of the
\* plan, which it carries as total, and the positions of the "Executing"
\* lines count up from zero: over a successful run of a plan of n steps they
\* are 0, 1, ..., n-1.
C30_ZeroBasedPositions ==
    /\ \A q \in Events("executing") \cup Events("error") :
           /\ log[q].i < log[q].len
           /\ log[q].len = Len(ts)
    /\ \A k \in DOMAIN Positions : Positions[k] = k - 1
    /\ (pc = "done" /\ rv = NoErr) => Len(Positions) = Len(ts)

\* A run of a plan of three steps has succeeded.
C30_Witness ==
    /\ pc = "done"
    /\ rv = NoErr
    /\ Len(ts) = 3
    /\ Positions = <<0, 1, 2>>

====
